---- MODULE Spec2Model ----
(***************************************************************************)
(* Model of src/type.rs of dcSpark/codegen: the Type node (name plus       *)
(* ordered generics), its construction from text through the syn parser,   *)
(* the builder operations generic and path, key_for_sorting, and fmt.      *)
(*                                                                         *)
(* A text (Rust String) is a sequence of symbols.  A symbol is one         *)
(* character: a punctuation character, a blank, a digit, or an identifier  *)
(* character.  Identifier characters are written with readable names       *)
(* ("Vec", "u8", ...): a run of adjacent identifier characters is one      *)
(* identifier, exactly as a run of letters is.                             *)
(***************************************************************************)
EXTENDS Integers, Sequences, FiniteSets, TLC

\* ------------------------------------------------------------------ bounds
MaxSize == 4
MaxSegs == 2
MaxOps == 3

\* ----------------------------------------------------------------- symbols
Idents == {"Vec", "u8"}
Letters == Idents \cup {"a", "mut", "foo"}
Digits == {"3"}
Lt == "<"
Gt == ">"
Colon == ":"
Sep == <<":", ":">>
Blank == " "

\* str.contains(c) for a one-character pattern
Contains(s, c) == \E i \in 1..Len(s) : s[i] = c

\* str.contains("::")
ContainsSep(s) == \E i \in 1..(Len(s) - 1) : s[i] = Colon /\ s[i + 1] = Colon

\* str.rfind("::"): the search runs from the end of the string; 0 stands for None,
\* otherwise the (1-based) index of the first character of the match
RECURSIVE RFindFrom(_, _)
RFindFrom(s, i) ==
    IF i < 1 THEN 0
    ELSE IF s[i] = Colon /\ s[i + 1] = Colon THEN i
    ELSE RFindFrom(s, i - 1)

\* mutant of RFindSep: str.find("::"), the first occurrence
RECURSIVE FindFrom(_, _)
FindFrom(s, i) ==
    IF i > Len(s) - 1 THEN 0
    ELSE IF s[i] = Colon /\ s[i + 1] = Colon THEN i
    ELSE FindFrom(s, i + 1)

FindSep(s) == FindFrom(s, 1)

RFindSep(s) == RFindFrom(s, Len(s) - 1)

\* [String].join(sep)
RECURSIVE Join(_, _)
Join(parts, sep) ==
    IF Len(parts) = 0 THEN <<>>
    ELSE IF Len(parts) = 1 THEN parts[1]
    ELSE parts[1] \o sep \o Join(Tail(parts), sep)

\* ------------------------------------------------------------ syn: the lexer
\* A token is [t, v]: t the token class, v its characters.
Tok(t, v) == [t |-> t, v |-> v]

RECURSIVE RunEnd(_, _)
\* the index of the last character of the identifier run that starts at i
RunEnd(s, i) ==
    IF i < Len(s) /\ s[i + 1] \in Letters THEN RunEnd(s, i + 1) ELSE i

Word(run) == IF run = <<"mut">> THEN Tok("kw", run) ELSE Tok("id", run)

RECURSIVE LexFrom(_, _)
LexFrom(s, i) ==
    IF i > Len(s) THEN <<>>
    ELSE IF s[i] = Blank THEN LexFrom(s, i + 1)
    ELSE IF s[i] \in Letters THEN
        LET j == RunEnd(s, i)
        IN  <<Word(SubSeq(s, i, j))>> \o LexFrom(s, j + 1)
    ELSE IF s[i] \in Digits THEN <<Tok("lit", <<s[i]>>)>> \o LexFrom(s, i + 1)
    ELSE IF s[i] = "'" THEN
        IF i < Len(s) /\ s[i + 1] \in Letters
        THEN LET j == RunEnd(s, i + 1)
             IN  <<Tok("lifetime", SubSeq(s, i + 1, j))>> \o LexFrom(s, j + 1)
        ELSE <<Tok("err", <<s[i]>>)>> \o LexFrom(s, i + 1)
    ELSE IF s[i] = Colon THEN
        IF i < Len(s) /\ s[i + 1] = Colon
        THEN <<Tok("p", Sep)>> \o LexFrom(s, i + 2)
        ELSE <<Tok("p", <<s[i]>>)>> \o LexFrom(s, i + 1)
    ELSE IF s[i] \in {"<", ">", ",", "&"} THEN <<Tok("p", <<s[i]>>)>> \o LexFrom(s, i + 1)
    ELSE <<Tok("err", <<s[i]>>)>> \o LexFrom(s, i + 1)

Lex(s) == LexFrom(s, 1)

\* ------------------------------------------------------- syn: the syntax tree
\* syn::Type::Path(TypePath { path: Path { leading_colon, segments } })
TypePath(leading, segments) ==
    [kind |-> "Path", leading_colon |-> leading, segments |-> segments]

\* syn::Type::Reference(TypeReference { lifetime, mutability, elem });
\* lifetime <<>> stands for None
TypeReference(lifetime, mutability, elem) ==
    [kind |-> "Reference", lifetime |-> lifetime, mutability |-> mutability,
     elem |-> elem]

\* syn::PathSegment { ident, arguments }
PathSegment(ident, arguments) == [ident |-> ident, arguments |-> arguments]

\* syn::PathArguments::None and ::AngleBracketed(AngleBracketedGenericArguments
\* { colon2_token, args, .. }); trailing says that args (a Punctuated) ends with
\* a comma
ArgsNone ==
    [kind |-> "None", colon2_token |-> FALSE, args |-> <<>>, trailing |-> FALSE]
AngleBracketed(colon2, args, trailing) ==
    [kind |-> "AngleBracketed", colon2_token |-> colon2, args |-> args,
     trailing |-> trailing]

\* syn::GenericArgument::Type, ::Lifetime, ::Const
ArgType(ty) == [kind |-> "Type", ty |-> ty]
ArgLifetime(ident) == [kind |-> "Lifetime", ident |-> ident]
ArgConst(lit) == [kind |-> "Const", lit |-> lit]

\* ----------------------------------------------------------- syn: the parser
\* syn::parse_str::<syn::Type> on the grammar
\*   Type     ::= "&" lifetime? "mut"? Type | Path
\*   Path     ::= "::"? Segment ("::" Segment)*
\*   Segment  ::= ident ("::"? "<" (Arg ("," Arg)* ","?)? ">")?
\*   Arg      ::= lifetime | literal | Type
\* A parse result is [ok, val, next]: next is the index of the first token not
\* consumed.
Fail == [ok |-> FALSE, val |-> <<>>, next |-> 0]
Done(val, next) == [ok |-> TRUE, val |-> val, next |-> next]

IsP(ts, i, v) == i <= Len(ts) /\ ts[i] = Tok("p", v)
IsT(ts, i, t) == i <= Len(ts) /\ ts[i].t = t

RECURSIVE ParseType(_, _)
RECURSIVE ParseSegments(_, _)
RECURSIVE ParseArgList(_, _)

\* a parse result r mapped through f, a failure kept
ArgOfType(r) == IF r.ok THEN Done(ArgType(r.val), r.next) ELSE Fail

ParseArg(ts, i) ==
    IF IsT(ts, i, "lifetime") THEN Done(ArgLifetime(ts[i].v), i + 1)
    ELSE IF IsT(ts, i, "lit") THEN Done(ArgConst(ts[i].v), i + 1)
    ELSE ArgOfType(ParseType(ts, i))

\* the list that starts with argument a and goes on with the list r
ConsArgs(a, r) ==
    IF r.ok THEN Done([r.val EXCEPT !.args = <<a.val>> \o @], r.next) ELSE Fail

\* the rest of an argument list after its argument a
ArgListAfter(ts, a) ==
    IF ~a.ok THEN Fail
    ELSE IF IsP(ts, a.next, <<Gt>>)
    THEN Done([args |-> <<a.val>>, trailing |-> FALSE], a.next + 1)
    ELSE IF IsP(ts, a.next, <<",">>) /\ IsP(ts, a.next + 1, <<Gt>>)
    THEN Done([args |-> <<a.val>>, trailing |-> TRUE], a.next + 2)
    ELSE IF IsP(ts, a.next, <<",">>) THEN ConsArgs(a, ParseArgList(ts, a.next + 1))
    ELSE Fail

\* the arguments after "<", up to and including the closing ">"; the value is
\* [args, trailing]
ParseArgList(ts, i) ==
    IF IsP(ts, i, <<Gt>>) THEN Done([args |-> <<>>, trailing |-> FALSE], i + 1)
    ELSE ArgListAfter(ts, ParseArg(ts, i))

ArgumentsOf(colon2, r) ==
    IF r.ok THEN Done(AngleBracketed(colon2, r.val.args, r.val.trailing), r.next)
    ELSE Fail

ParseArguments(ts, i) ==
    IF IsP(ts, i, <<Lt>>) THEN ArgumentsOf(FALSE, ParseArgList(ts, i + 1))
    ELSE IF IsP(ts, i, Sep) /\ IsP(ts, i + 1, <<Lt>>)
    THEN ArgumentsOf(TRUE, ParseArgList(ts, i + 2))
    ELSE Done(ArgsNone, i)

ConsSegments(seg, r) ==
    IF r.ok THEN Done(<<seg>> \o r.val, r.next) ELSE Fail

\* the rest of a path after the segment of identifier ident and arguments a
SegmentsAfter(ts, ident, a) ==
    IF ~a.ok THEN Fail
    ELSE IF IsP(ts, a.next, Sep)
    THEN ConsSegments(PathSegment(ident, a.val), ParseSegments(ts, a.next + 1))
    ELSE Done(<<PathSegment(ident, a.val)>>, a.next)

ParseSegments(ts, i) ==
    IF ~IsT(ts, i, "id") THEN Fail
    ELSE SegmentsAfter(ts, ts[i].v, ParseArguments(ts, i + 1))

PathOf(leading, r) ==
    IF r.ok THEN Done(TypePath(leading, r.val), r.next) ELSE Fail

ParsePath(ts, i) ==
    IF IsP(ts, i, Sep) THEN PathOf(TRUE, ParseSegments(ts, i + 1))
    ELSE PathOf(FALSE, ParseSegments(ts, i))

ReferenceOf(lifetime, mutability, e) ==
    IF e.ok THEN Done(TypeReference(lifetime, mutability, e.val), e.next) ELSE Fail

\* "&" lifetime? at i, and then from j on: "mut"? Type
ParseReference(ts, lifetime, j) ==
    IF IsT(ts, j, "kw") THEN ReferenceOf(lifetime, TRUE, ParseType(ts, j + 1))
    ELSE ReferenceOf(lifetime, FALSE, ParseType(ts, j))

ParseType(ts, i) ==
    IF IsP(ts, i, <<"&">>) THEN
        IF IsT(ts, i + 1, "lifetime")
        THEN ParseReference(ts, ts[i + 1].v, i + 2)
        ELSE ParseReference(ts, <<>>, i + 1)
    ELSE ParsePath(ts, i)

\* the whole token sequence must be one type
WholeInput(ts, r) ==
    IF r.ok /\ r.next = Len(ts) + 1 THEN Done(r.val, r.next) ELSE Fail

ParseTokens(ts) == WholeInput(ts, ParseType(ts, 1))

\* syn::parse_str(&name): Ok(ast) or Err
parse_str(text) == ParseTokens(Lex(text))

\* ------------------------------------------------- quote: printing a tree
\* The tokens of a syntax tree (ToTokens), each token as its characters.
RECURSIVE TokensOfType(_)
RECURSIVE TokensOfArgs(_, _)
RECURSIVE TokensOfSegments(_, _)

TokensOfArg(arg) ==
    IF arg.kind = "Type" THEN TokensOfType(arg.ty)
    ELSE IF arg.kind = "Lifetime" THEN <<(<<"'">> \o arg.ident)>>
    ELSE <<arg.lit>>

TokensOfArgs(args, i) ==
    IF i > Len(args) THEN <<>>
    ELSE (IF i > 1 THEN << <<",">> >> ELSE <<>>)
         \o TokensOfArg(args[i]) \o TokensOfArgs(args, i + 1)

TokensOfSegments(segments, i) ==
    IF i > Len(segments) THEN <<>>
    ELSE (IF i > 1 THEN <<Sep>> ELSE <<>>)
         \o <<segments[i].ident>>
         \o (IF segments[i].arguments.kind = "AngleBracketed"
             THEN (IF segments[i].arguments.colon2_token THEN <<Sep>> ELSE <<>>)
                  \o << <<Lt>> >> \o TokensOfArgs(segments[i].arguments.args, 1)
                  \o (IF segments[i].arguments.trailing THEN << <<",">> >> ELSE <<>>)
                  \o << <<Gt>> >>
             ELSE <<>>)
         \o TokensOfSegments(segments, i + 1)

TokensOfType(ast) ==
    IF ast.kind = "Path" THEN
        (IF ast.leading_colon THEN <<Sep>> ELSE <<>>)
        \o TokensOfSegments(ast.segments, 1)
    ELSE << <<"&">> >>
         \o (IF ast.lifetime # <<>> THEN <<(<<"'">> \o ast.lifetime)>> ELSE <<>>)
         \o (IF ast.mutability THEN << <<"mut">> >> ELSE <<>>)
         \o TokensOfType(ast.elem)

\* quote::quote! { #ast }.to_string(): the tokens separated by one blank
\* ("& 'a mut Foo < Bar >", as the test parse_generic expects)
QuoteToString(ast) == Join(TokensOfType(ast), <<Blank>>)


\* ------------------------------------------------------------ Type (type.rs)
\* struct Type { name: String, generics: Vec<Type> }
Type(name, generics) == [name |-> name, generics |-> generics]

\* the outcome of a call that panics (a failed assert!, an unwrap() of Err)
Panic == [panic |-> TRUE]
IsPanic(x) == "panic" \in DOMAIN x

\* What a caller hands to generic<T: Into<Type>>: a text (From<S: ToString>),
\* a borrowed node (From<&Type>) or a node by value.
FromText(text) == [from |-> "text", text |-> text, node |-> Type(<<>>, <<>>)]
FromRef(node) == [from |-> "ref", text |-> <<>>, node |-> node]
FromValue(node) == [from |-> "value", text |-> <<>>, node |-> node]

\* segments.iter().map(|seg| seg.ident.to_string()).collect::<Vec<String>>()
SegmentIdents(segments) == [i \in 1..Len(segments) |-> segments[i].ident]

RECURSIVE new(_)
RECURSIVE split_name_and_generic(_)
RECURSIVE SplitArgs(_, _, _, _)

\* ty.into()
Into(ty) == IF ty.from = "text" THEN new(ty.text) ELSE ty.node

\* self.generics.push(t), unless the conversion that made t panicked
Push(self, t) ==
    IF IsPanic(t) THEN Panic ELSE [self EXCEPT !.generics = Append(@, t)]

\* mutant of generic: the assertion is missing
GenericUnchecked(self, ty) == Push(self, Into(ty))

\* Type::generic: the assertion, then self.generics.push(ty.into())
generic(self, ty) ==
    IF Contains(self.name, Lt) THEN Panic ELSE Push(self, Into(ty))

\* the rest of the loop once argument i is pushed
SplitNext(ast, pushed, args, i) ==
    IF IsPanic(pushed) THEN Panic ELSE SplitArgs(ast, pushed, args, i + 1)

\* new_type.generic(generic_type)
SplitPush(ast, new_type, generic_type, args, i) ==
    IF IsPanic(generic_type) THEN Panic
    ELSE SplitNext(ast, generic(new_type, FromValue(generic_type)), args, i)

\* mutant of SplitArgs: an argument that is no type is skipped and the loop
\* goes on (partial decomposition)
SplitArgsSkipping(ast, new_type, args, i) ==
    IF i > Len(args) THEN new_type
    ELSE IF args[i].kind = "Type"
    THEN SplitPush(ast, new_type, split_name_and_generic(args[i].ty), args, i)
    ELSE SplitArgs(ast, new_type, args, i + 1)

\* the loop over args.iter() of split_name_and_generic, from argument i on
SplitArgs(ast, new_type, args, i) ==
    IF i > Len(args) THEN new_type
    ELSE IF args[i].kind = "Type"
    THEN SplitPush(ast, new_type, split_name_and_generic(args[i].ty), args, i)
    ELSE Type(QuoteToString(ast), <<>>)

\* split_name_and_generic once new_type is built
SplitPath(ast, new_type, last) ==
    IF IsPanic(new_type) THEN Panic
    ELSE IF last.kind = "AngleBracketed" THEN SplitArgs(ast, new_type, last.args, 1)
    ELSE new_type

\* mutant of LastArguments: the arguments of the first segment
FirstArguments(segments) == segments[1].arguments

\* segments.last().unwrap().arguments
LastArguments(segments) == segments[Len(segments)].arguments

split_name_and_generic(ast) ==
    IF ast.kind = "Path"
    THEN SplitPath(ast, new(Join(SegmentIdents(ast.segments), Sep)),
                   LastArguments(ast.segments))
    ELSE Type(QuoteToString(ast), <<>>)

\* syn::parse_str(&name).unwrap(), then split_name_and_generic
SplitParsed(r) == IF r.ok THEN split_name_and_generic(r.val) ELSE Panic

\* mutant of new: a text the parser rejects is kept whole as an opaque name
NewOrOpaque(name) ==
    IF Contains(name, Lt) /\ parse_str(name).ok THEN SplitParsed(parse_str(name))
    ELSE Type(name, <<>>)

\* Type::new
new(name) ==
    IF Contains(name, Lt) THEN SplitParsed(parse_str(name)) ELSE Type(name, <<>>)

\* Type::key_for_sorting
key_for_sorting(self) ==
    IF RFindSep(self.name) # 0
    THEN SubSeq(self.name, RFindSep(self.name) + 2, Len(self.name))
    ELSE self.name

\* mutant of path: the generics are not carried over
PathWithoutGenerics(self, prefix) ==
    IF ContainsSep(self.name) THEN Panic
    ELSE Type(prefix \o Sep \o self.name, <<>>)

\* Type::path
path(self, prefix) ==
    IF ContainsSep(self.name) THEN Panic
    ELSE Type(prefix \o Sep \o self.name, self.generics)


\* ----------------------------------------------------- the inputs of new
\* Syntax trees by size: a segment counts 1, a reference 1, a lifetime or a
\* const argument 1.  Every segment may carry an argument list.
RECURSIVE TypesOfSize(_)
RECURSIVE ArgListsOfSize(_)
RECURSIVE SegmentSeqs(_, _)

ArgsOfSize(n) ==
    {ArgType(t) : t \in TypesOfSize(n)}
    \cup (IF n = 1 THEN {ArgLifetime(<<"a">>), ArgConst(<<"3">>)} ELSE {})

\* the non-empty argument lists of total size n
ArgListsOfSize(n) ==
    {<<a>> : a \in ArgsOfSize(n)}
    \cup UNION {{<<a>> \o r : a \in ArgsOfSize(j), r \in ArgListsOfSize(n - j)} :
                j \in 1..(n - 1)}

SegmentsOfSize(n) ==
    IF n = 1 THEN {PathSegment(<<i>>, ArgsNone) : i \in Idents}
    ELSE {PathSegment(<<i>>, AngleBracketed(FALSE, l, FALSE)) :
            i \in Idents, l \in ArgListsOfSize(n - 1)}

\* the sequences of 1..k segments of total size n
SegmentSeqs(n, k) ==
    IF n < 1 \/ k < 1 THEN {}
    ELSE {<<g>> : g \in SegmentsOfSize(n)}
         \cup UNION {{<<g>> \o r : g \in SegmentsOfSize(j),
                                   r \in SegmentSeqs(n - j, k - 1)} :
                     j \in 1..(n - 1)}

TypesOfSize(n) ==
    {TypePath(FALSE, g) : g \in SegmentSeqs(n, MaxSegs)}
    \cup (IF n > 1
          THEN {TypeReference(<<>>, FALSE, e) : e \in TypesOfSize(n - 1)}
               \cup {TypeReference(<<"a">>, TRUE, e) : e \in TypesOfSize(n - 1)}
          ELSE {})

\* the trees the inputs are printed from: every tree up to MaxSize, and every
\* path among them once more with a leading "::"
Asts ==
    LET plain == UNION {TypesOfSize(n) : n \in 1..MaxSize}
    IN  plain \cup {[t EXCEPT !.leading_colon = TRUE] : t \in {u \in plain : u.kind = "Path"}}

\* A tree written the way source code writes it: no blank between two tokens
\* except after a comma and between two words ("&'a mut Vec<u8, u8>").
RECURSIVE Glue(_, _)
Glue(tokens, i) ==
    IF i > Len(tokens) THEN <<>>
    ELSE tokens[i]
         \o (IF i < Len(tokens)
                /\ (tokens[i] = <<",">>
                    \/ (tokens[i][Len(tokens[i])] \in Letters
                        /\ tokens[i + 1][1] \in Letters))
             THEN <<Blank>> ELSE <<>>)
         \o Glue(tokens, i + 1)

SourceText(ast) == Glue(TokensOfType(ast), 1)


\* ------------------------------------------------------- the sink and fmt
\* The sink (crate::formatter::Formatter over a destination) as fmt sees it:
\* out is what the destination has received, writes the number of writes
\* attempted, fail_at the attempt that fails (0: none fails), err the Result
\* of the last write.
Sink(fail_at) == [out |-> <<>>, writes |-> 0, fail_at |-> fail_at, err |-> FALSE]

\* write!(fmt, ...): one write of the characters s; a failing write appends
\* nothing and returns Err
write(st, s) ==
    IF st.writes + 1 = st.fail_at
    THEN [st EXCEPT !.writes = @ + 1, !.err = TRUE]
    ELSE [st EXCEPT !.writes = @ + 1, !.out = @ \o s]

RECURSIVE fmt(_, _)
RECURSIVE FmtLoop(_, _, _)

\* `?`: the rest of the loop runs only when the element was written
FmtLoopNext(generics, i, st) ==
    IF st.err THEN st ELSE FmtLoop(generics, i + 1, st)

\* `?`: element i is written only when the separator was
FmtElement(generics, i, st) ==
    IF st.err THEN st ELSE FmtLoopNext(generics, i, fmt(generics[i], st))

\* the loop over generics.iter().enumerate() of fmt_slice, from element i on
FmtLoop(generics, i, st) ==
    IF i > Len(generics) THEN st
    ELSE FmtElement(generics, i, IF i # 1 THEN write(st, <<",", Blank>>) ELSE st)

\* `?`: ">" is written only when the loop ended Ok
FmtClose(st) == IF st.err THEN st ELSE write(st, <<Gt>>)

\* `?`: the loop runs only when "<" was written
FmtOpen(generics, st) ==
    IF st.err THEN st ELSE FmtClose(FmtLoop(generics, 1, st))

\* Type::fmt_slice
fmt_slice(generics, st) ==
    IF generics # <<>> THEN FmtOpen(generics, write(st, <<Lt>>)) ELSE st

\* `?`: fmt_slice runs only when the name was written
FmtGenerics(self, st) == IF st.err THEN st ELSE fmt_slice(self.generics, st)

\* Type::fmt
fmt(self, st) == FmtGenerics(self, write(st, self.name))

\* ------------------------------------------------------------------ state
VARIABLES
    nodes,   \* the builder: the Type each binding holds, or NoNode
    ops,     \* the builder: the number of mutating calls made so far
    call,    \* the builder: the last call made
    ret,     \* the builder: what the last call returned
    sink,    \* the sink of the last fmt call
    input,   \* the text handed to Type::new, and the tree it was printed from
    output   \* what Type::new returned for input

vars == <<nodes, ops, call, ret, sink, input, output>>

Slots == {1, 2}

NoNode == [none |-> TRUE]
IsNode(x) == "name" \in DOMAIN x

\* the texts the builder's callers pass to Type::new and to generic
Texts ==
    { <<>>,
      <<"u8">>,
      <<"foo", ":", ":", "u8">>,
      <<"Vec", "<", "u8", ">">>,
      <<"Vec", "<", "'", "a", ">">>,
      <<"Vec", "<">> }

\* the prefixes the builder's callers pass to path
Prefixes == { <<"foo">>, <<"foo", ":", ":", "foo">>, <<"Vec", "<", "u8", ">">> }

NoCall == [op |-> "none", slot |-> 0, dst |-> 0, ty |-> FromText(<<>>), prefix |-> <<>>]
Call(op, slot, dst, ty, prefix) ==
    [op |-> op, slot |-> slot, dst |-> dst, ty |-> ty, prefix |-> prefix]
Ret(status, val) == [status |-> status, val |-> val]

Idle == Sink(0)
NoInput == [text |-> <<>>, tree |-> <<>>, given |-> FALSE]
NoOutput == [none |-> TRUE]

InitBuilder ==
    /\ nodes = [s \in Slots |-> NoNode]
    /\ ops = 0
    /\ call = NoCall
    /\ ret = Ret("none", <<>>)
    /\ sink = Idle

\* -------------------------------------------------------------- the builder
\* A call returned r: a panic leaves every binding as it was, a node is bound
\* to d.
Returned(d, r) ==
    /\ nodes' = IF IsPanic(r) THEN nodes ELSE [nodes EXCEPT ![d] = r]
    /\ ret' = Ret(IF IsPanic(r) THEN "panic" ELSE "ok", <<>>)

\* fmt left the sink as st and returned its Result
Written(st) ==
    /\ sink' = st
    /\ ret' = Ret(IF st.err THEN "Err" ELSE "Ok", <<>>)

\* let <s> = Type::new(text)
New(s, text) ==
    /\ ops < MaxOps
    /\ Returned(s, new(text))
    /\ ops' = ops + 1
    /\ call' = Call("new", s, s, FromText(text), <<>>)
    /\ sink' = Idle
    /\ UNCHANGED <<input, output>>

\* <s>.generic(ty)
Generic(s, ty) ==
    /\ ops < MaxOps
    /\ IsNode(nodes[s])
    /\ Returned(s, generic(nodes[s], ty))
    /\ ops' = ops + 1
    /\ call' = Call("generic", s, s, ty, <<>>)
    /\ sink' = Idle
    /\ UNCHANGED <<input, output>>

\* let <d> = <s>.path(prefix)
Path(s, d, prefix) ==
    /\ ops < MaxOps
    /\ IsNode(nodes[s])
    /\ Returned(d, path(nodes[s], prefix))
    /\ ops' = ops + 1
    /\ call' = Call("path", s, d, FromText(<<>>), prefix)
    /\ sink' = Idle
    /\ UNCHANGED <<input, output>>

\* let <d> = Type::from(&<s>)   (src.clone())
Copy(s, d) ==
    /\ ops < MaxOps
    /\ IsNode(nodes[s])
    /\ nodes' = [nodes EXCEPT ![d] = nodes[s]]
    /\ ret' = Ret("ok", <<>>)
    /\ ops' = ops + 1
    /\ call' = Call("copy", s, d, FromText(<<>>), <<>>)
    /\ sink' = Idle
    /\ UNCHANGED <<input, output>>

\* <s>.key_for_sorting()
KeyForSorting(s) ==
    /\ IsNode(nodes[s])
    /\ ret' = Ret("ok", key_for_sorting(nodes[s]))
    /\ call' = Call("key_for_sorting", s, s, FromText(<<>>), <<>>)
    /\ sink' = Idle
    /\ UNCHANGED <<nodes, ops, input, output>>

\* <s>.fmt(&mut Formatter::new(&mut dst)), the sink failing at write fail_at
Fmt(s, fail_at) ==
    /\ IsNode(nodes[s])
    /\ Written(fmt(nodes[s], Sink(fail_at)))
    /\ call' = Call("fmt", s, s, FromText(<<>>), <<>>)
    /\ UNCHANGED <<nodes, ops, input, output>>

\* the number of writes fmt makes for a node when none fails
NumWrites(node) == fmt(node, Sink(0)).writes

Next ==
    \/ \E s \in Slots, text \in Texts : New(s, text)
    \/ \E s \in Slots, text \in Texts : Generic(s, FromText(text))
    \/ \E s \in Slots, t \in Slots : IsNode(nodes[t]) /\ Generic(s, FromRef(nodes[t]))
    \/ \E s \in Slots : \E d \in Slots \ {s}, prefix \in Prefixes : Path(s, d, prefix)
    \/ \E s \in Slots : \E d \in Slots \ {s} : Copy(s, d)
    \/ \E s \in Slots : KeyForSorting(s)
    \/ \E s \in Slots : IsNode(nodes[s])
                        /\ \E fail_at \in 0..NumWrites(nodes[s]) : Fmt(s, fail_at)

Init == InitBuilder /\ input = NoInput /\ output = NoOutput

Spec == Init /\ [][Next]_vars


\* ------------------------------------------------- Type::new on drawn inputs
\* An input is a text, with the tree it was printed from when it was printed
\* from one (tree is <<>> or <<ast>>).
Input(text, tree) == [text |-> text, tree |-> tree, given |-> TRUE]

\* texts that are no printed tree: the empty text, a path written with blanks,
\* a trailing comma, a turbofish, a lone "<"
OtherTexts ==
    { <<>>,
      <<"Vec", Blank, ":", ":", Blank, "u8">>,
      <<"Vec", "<", "u8", ",", ">">>,
      <<"Vec", ":", ":", "<", "u8", ">">>,
      <<"<">> }

\* every tree as source text and as quote prints it, every source text without
\* its last character, and the other texts
Inputs ==
    {Input(SourceText(a), <<a>>) : a \in Asts}
    \cup {Input(QuoteToString(a), <<a>>) : a \in Asts}
    \cup {Input(SubSeq(SourceText(a), 1, Len(SourceText(a)) - 1), <<>>) : a \in Asts}
    \cup {Input(t, <<>>) : t \in OtherTexts}

InitNew == InitBuilder /\ input \in Inputs /\ output = NoOutput

\* let output = Type::new(input.text)
ApplyNew ==
    /\ output = NoOutput
    /\ output' = new(input.text)
    /\ UNCHANGED <<nodes, ops, call, ret, sink, input>>

\* output.fmt(&mut Formatter::new(&mut ret)) with ret a String, whose writes do
\* not fail (the test parse_generic)
FmtOutput ==
    /\ IsNode(output)
    /\ call = NoCall
    /\ Written(fmt(output, Sink(0)))
    /\ call' = Call("fmt", 0, 0, FromText(<<>>), <<>>)
    /\ UNCHANGED <<nodes, ops, input, output>>

NextNew == ApplyNew \/ FmtOutput

SpecNew == InitNew /\ [][NextNew]_vars


\* =================================================================== claims
\* ---- helpers of the claims about Type::new (checked under SpecNew)
HasTree == input.tree # <<>>
Tree == input.tree[1]
Applied == output # NoOutput

\* the entries of the angle-bracketed list that ends a path (none without one)
ListedArgs(t) == t.segments[Len(t.segments)].arguments.args

\* the opaque node of an expression: its verbatim re-rendering, no generics
Opaque(t) == Type(QuoteToString(t), <<>>)

\* a named path, its only argument list after the last segment, every entry
\* of the list a plain type argument that is such a path again
RECURSIVE PlainPath(_)
PlainPath(t) ==
    /\ t.kind = "Path"
    /\ \A i \in 1..(Len(t.segments) - 1) : t.segments[i].arguments.kind = "None"
    /\ \A j \in 1..Len(ListedArgs(t)) :
          ListedArgs(t)[j].kind = "Type" /\ PlainPath(ListedArgs(t)[j].ty)

\* the node the claim describes for a plain path
RECURSIVE Decomposed(_)
Decomposed(t) ==
    Type(Join([i \in 1..Len(t.segments) |-> t.segments[i].ident], Sep),
         [j \in 1..Len(ListedArgs(t)) |-> Decomposed(ListedArgs(t)[j].ty)])

\* C1: for every input text that denotes a plain named path, Type::new returns
\* a node whose name is the identifier segments joined by "::" (the text itself
\* when it holds no "<") and whose generics are the decompositions of the
\* arguments, one per argument, in order, to full depth.
C1_NewDecomposesPlainPaths ==
    (HasTree /\ PlainPath(Tree) /\ Applied) =>
        /\ IsNode(output)
        /\ output = IF Contains(input.text, Lt) THEN Decomposed(Tree)
                    ELSE Type(input.text, <<>>)

\* a plain path with two arguments, the first of them generic
C1_Witness ==
    /\ HasTree /\ PlainPath(Tree) /\ IsNode(output)
    /\ Len(output.generics) = 2
    /\ Len(output.generics[1].generics) = 1
    /\ output.generics[2].generics = <<>>

\* an expression composed only of named paths and plain type arguments
RECURSIVE OnlyPaths(_)
OnlyPaths(t) ==
    /\ t.kind = "Path"
    /\ \A i \in 1..Len(t.segments) :
          \A j \in 1..Len(t.segments[i].arguments.args) :
              /\ t.segments[i].arguments.args[j].kind = "Type"
              /\ OnlyPaths(t.segments[i].arguments.args[j].ty)

\* C2: round trip: for a type expression composed only of named paths and
\* plain type arguments, rendering Type::new(text) gives back the tokens of
\* the text.
C2_RoundTrip ==
    (HasTree /\ OnlyPaths(Tree) /\ call.op = "fmt") =>
        ret.status = "Ok" /\ Lex(sink.out) = Lex(input.text)

\* C3 as claimed: Type::new returns a node for every input text.
C3_NewNeverPanics == Applied => IsNode(output)

\* the expression is no named path, or the list that ends it has an entry that
\* is no plain type argument
Undecomposable(t) ==
    \/ t.kind # "Path"
    \/ \E j \in 1..Len(ListedArgs(t)) : ListedArgs(t)[j].kind # "Type"

\* C3 as amended: Type::new panics exactly for the texts that hold "<" and that
\* the parser rejects; for every other text, so for every text that is a type
\* expression, it returns a node, the opaque node when the expression cannot
\* be decomposed.
C3_NewPanicsExactlyOnParseError ==
    Applied =>
        /\ IsPanic(output) <=> (Contains(input.text, Lt) /\ ~parse_str(input.text).ok)
        /\ ~IsPanic(output) => IsNode(output)
        /\ HasTree => IsNode(output)
        /\ (HasTree /\ Contains(input.text, Lt) /\ Undecomposable(Tree))
              => output = Opaque(Tree)

\* a text with "<" the parser rejects: new has panicked
C3_Witness == Applied /\ IsPanic(output) /\ Len(input.text) > 2

\* C4: a decomposed expression yields the opaque node exactly when it is no
\* named path or its list has an entry that is no plain type argument, also
\* when plain type arguments come before that entry; an opaque argument is one
\* generic of its enclosing node and does not make that node opaque.
C4_OpaqueExactlyWhenUndecomposable ==
    (HasTree /\ Contains(input.text, Lt) /\ Applied) =>
        /\ IsNode(output)
        /\ (output = Opaque(Tree)) <=> Undecomposable(Tree)
        /\ ~Undecomposable(Tree) =>
              /\ ~Contains(output.name, Lt)
              /\ Len(output.generics) = Len(ListedArgs(Tree))
              /\ \A j \in 1..Len(ListedArgs(Tree)) :
                    Undecomposable(ListedArgs(Tree)[j].ty)
                        => output.generics[j] = Opaque(ListedArgs(Tree)[j].ty)

\* the shape of Result<&'a mut Foo<Bar>>: one generic, the opaque node of a
\* reference to a generic type
C4_Witness ==
    /\ HasTree /\ IsNode(output) /\ Tree.kind = "Path"
    /\ output.name = <<"Vec">>
    /\ Len(output.generics) = 1
    /\ ListedArgs(Tree)[1].kind = "Type"
    /\ ListedArgs(Tree)[1].ty.kind = "Reference"
    /\ output.generics[1].generics = <<>>
    /\ Contains(output.generics[1].name, Lt)


\* ---- the claims about the builder (checked under Spec)
\* a mutating call was made in this step
Mutated == ops' = ops + 1

\* C5 as claimed: in every node a binding holds, and in every node of its
\* generics subtree, non-empty generics go with a name that holds no "<".
RECURSIVE NoMarkerWithGenerics(_)
NoMarkerWithGenerics(node) ==
    /\ node.generics # <<>> => ~Contains(node.name, Lt)
    /\ \A i \in 1..Len(node.generics) : NoMarkerWithGenerics(node.generics[i])

C5_GenericsNeverBesideMarker ==
    \A s \in Slots : IsNode(nodes[s]) => NoMarkerWithGenerics(nodes[s])

\* the node generic's argument converts to: new(text) for a text, the node
\* itself (copied) otherwise
Converted(ty) == IF ty.from = "text" THEN new(ty.text) ELSE ty.node

\* C6 as claimed: generic on a node whose name holds "<" panics and leaves the
\* node as it was; on any other node it appends exactly one node at the end of
\* generics and leaves name and the earlier generics as they were.
C6_GenericAsClaimed ==
    [][(Mutated /\ call'.op = "generic") =>
        LET s == call'.slot
        IN  IF Contains(nodes[s].name, Lt)
            THEN ret'.status = "panic" /\ nodes'[s] = nodes[s]
            ELSE /\ ret'.status = "ok"
                 /\ nodes'[s].name = nodes[s].name
                 /\ Len(nodes'[s].generics) = Len(nodes[s].generics) + 1
                 /\ SubSeq(nodes'[s].generics, 1, Len(nodes[s].generics))
                        = nodes[s].generics
    ]_vars

\* C6 as amended: generic on a node whose name holds "<" panics and leaves the
\* node as it was; on any other node, when its argument is a text for which
\* Type::new panics, it panics too and leaves the node as it was; otherwise it
\* appends the converted argument at the end of generics and leaves name and
\* the earlier generics as they were.
C6_GenericAppendsOrPanics ==
    [][(Mutated /\ call'.op = "generic") =>
        LET s == call'.slot
            arg == Converted(call'.ty)
        IN  IF Contains(nodes[s].name, Lt) \/ IsPanic(arg)
            THEN ret'.status = "panic" /\ nodes' = nodes
            ELSE /\ ret'.status = "ok"
                 /\ nodes'[s] = Type(nodes[s].name, Append(nodes[s].generics, arg))
    ]_vars

\* two chained calls have succeeded: the generics are the two arguments in
\* call order, the second the one just passed
C6_Witness ==
    /\ call.op = "generic" /\ ret.status = "ok"
    /\ Len(nodes[call.slot].generics) = 2
    /\ nodes[call.slot].generics[1] # nodes[call.slot].generics[2]
    /\ nodes[call.slot].generics[2] = Converted(call.ty)

\* C7: path on a node whose name holds "::" panics; otherwise it returns a new
\* node named prefix + "::" + name with the receiver's generics and leaves the
\* receiver as it was; a later generic on either node leaves the other as it
\* was.
C7_PathReturnsIndependentNode ==
    [][Mutated =>
        /\ call'.op = "path" =>
              LET s == call'.slot
                  d == call'.dst
              IN  IF ContainsSep(nodes[s].name)
                  THEN ret'.status = "panic" /\ nodes' = nodes
                  ELSE /\ ret'.status = "ok"
                       /\ nodes'[d] = Type(call'.prefix \o Sep \o nodes[s].name,
                                           nodes[s].generics)
                       /\ nodes'[s] = nodes[s]
        /\ call'.op = "generic" =>
              \A t \in Slots \ {call'.slot} : nodes'[t] = nodes[t]
    ]_vars

\* generic has just changed one of a node and the node path made of it: the
\* names still differ by the prefix, the generics now differ
C7_Witness ==
    /\ call.op = "generic" /\ ret.status = "ok"
    /\ \E s \in Slots : \E d \in Slots \ {s} :
          /\ IsNode(nodes[s]) /\ IsNode(nodes[d])
          /\ nodes[d].name = <<"foo">> \o Sep \o nodes[s].name
          /\ nodes[s].generics # <<>>
          /\ Len(nodes[d].generics) = Len(nodes[s].generics) + 1

\* the full rendering of a node: name, then, for non-empty generics, "<", the
\* renderings of the generics separated by ", ", and ">"
RECURSIVE Rendering(_)
Rendering(node) ==
    node.name
    \o (IF node.generics # <<>>
        THEN <<Lt>>
             \o Join([i \in 1..Len(node.generics) |-> Rendering(node.generics[i])],
                     <<",", Blank>>)
             \o <<Gt>>
        ELSE <<>>)

IsPrefix(p, q) == Len(p) <= Len(q) /\ SubSeq(q, 1, Len(p)) = p

\* C8 as claimed: render writes the full rendering; when a write fails the
\* error is returned and no further write is attempted, so the sink holds a
\* prefix of the full rendering, and the full rendering exactly when render
\* returns Ok.
C8_FmtWritesRenderingOrPrefix ==
    call.op = "fmt" =>
        LET full == Rendering(nodes[call.slot])
        IN  /\ IsPrefix(sink.out, full)
            /\ ret.status = "Ok" <=> sink.out = full
            /\ ret.status = "Ok" <=> ~sink.err
            /\ sink.fail_at = 0 => ret.status = "Ok"
            /\ ret.status = "Err" => sink.writes = sink.fail_at

\* the last occurrence of "::" in a name: the greatest index it starts at
SepStarts(name) ==
    {i \in 1..(Len(name) - 1) : name[i] = Colon /\ name[i + 1] = Colon}
Greatest(S) == CHOOSE i \in S : \A j \in S : j <= i
AfterLastSep(name) ==
    IF SepStarts(name) = {} THEN name
    ELSE SubSeq(name, Greatest(SepStarts(name)) + 2, Len(name))

\* C9: key_for_sorting returns the part of name after the last "::", the whole
\* name when there is none; nodes of equal names have equal keys whatever their
\* generics; the call changes no node.
C9_KeyIsNameAfterLastSep ==
    [][(call'.op = "key_for_sorting" /\ call' # call) =>
        /\ nodes' = nodes
        /\ ret'.val = AfterLastSep(nodes[call'.slot].name)
        /\ \A t \in Slots :
              (IsNode(nodes[t]) /\ nodes[t].name = nodes[call'.slot].name)
                  => key_for_sorting(nodes[t]) = ret'.val
    ]_vars

\* the key of a qualified name was taken while the other binding holds a node
\* of the same name and other generics
C9_Witness ==
    /\ call.op = "key_for_sorting"
    /\ ContainsSep(nodes[call.slot].name)
    /\ ret.val # nodes[call.slot].name
    /\ \E t \in Slots :
          /\ IsNode(nodes[t])
          /\ nodes[t].name = nodes[call.slot].name
          /\ nodes[t].generics # nodes[call.slot].generics

\* C10 as claimed: every node a binding holds, and every node of its generics
\* subtree, has a non-empty name.
RECURSIVE NamesNonEmpty(_)
NamesNonEmpty(node) ==
    /\ node.name # <<>>
    /\ \A i \in 1..Len(node.generics) : NamesNonEmpty(node.generics[i])

C10_NameNeverEmpty ==
    \A s \in Slots : IsNode(nodes[s]) => NamesNonEmpty(nodes[s])


====
